---- MODULE Spec2Model ----
(***************************************************************************)
(* dnstool (src/dnstool/cli.py): the CoreDNS management utility.  The two  *)
(* files it owns, /etc/coredns/Corefile and /etc/coredns/zone.db, are      *)
(* modelled as their text: a sequence of one-character strings, or NoFile  *)
(* when the path does not exist.  Every str / file method the code calls   *)
(* (strip, startswith, split, replace, readlines, writelines, the f-string *)
(* formatting of the ttl) is an operator that computes what Python does.   *)
(* Spec runs one command at a time; SpecRace runs one `record add` and one *)
(* `record delete` at once, statement by statement.                        *)
(***************************************************************************)
EXTENDS Integers, Sequences, FiniteSets, TLC

VARIABLES
    ZONE_FILE,   \* text of /etc/coredns/zone.db, or NoFile
    CORE_FILE,   \* text of /etc/coredns/Corefile
    last,        \* the last command run: its arguments, the files before it, what it did
    nadds,       \* number of "record add" commands run so far
    scenario,    \* progress through init / add web1 / delete web1 / delete web1
    race         \* two commands running at once: where each is, what it holds

vars == <<ZONE_FILE, CORE_FILE, last, nadds, scenario, race>>

\* ------------------------------------------------------------------ bounds

MaxAdds == 2

\* ------------------------------------------------------------- text helpers

\* a path that does not exist: told apart from every text, whose elements are
\* single characters
NoFile == <<"NoFile">>

Min(S) == CHOOSE x \in S : \A y \in S : x <= y

Range(s) == {s[i] : i \in 1..Len(s)}

\* str.startswith
startswith(s, p) == Len(p) <= Len(s) /\ SubSeq(s, 1, Len(p)) = p

\* Python's str.strip() with no argument: removes leading and trailing whitespace
Whitespace == {" ", "\n", "\t"}

RECURSIVE lstrip(_)
lstrip(s) ==
    IF s # <<>> /\ Head(s) \in Whitespace THEN lstrip(Tail(s)) ELSE s

RECURSIVE rstrip(_)
rstrip(s) ==
    IF s # <<>> /\ s[Len(s)] \in Whitespace THEN rstrip(SubSeq(s, 1, Len(s) - 1)) ELSE s

strip(s) == rstrip(lstrip(s))

\* lowest index at which p occurs in s, 0 when it does not (str.find + 1)
find(s, p) ==
    LET hits == {i \in 1..(Len(s) - Len(p) + 1) : SubSeq(s, i, i + Len(p) - 1) = p}
    IN  IF hits = {} THEN 0 ELSE Min(hits)

\* the `in` operator on str
contains(s, p) == find(s, p) # 0

\* str.replace(old, new): every non-overlapping occurrence, left to right
RECURSIVE replace(_, _, _)
replace(s, old, new) ==
    LET i == find(s, old)
    IN  IF i = 0 THEN s
        ELSE SubSeq(s, 1, i - 1) \o new \o replace(SubSeq(s, i + Len(old), Len(s)), old, new)

\* str.split(sep) for a one-character separator: the list of pieces
RECURSIVE split(_, _)
split(s, sep) ==
    LET i == find(s, <<sep>>)
    IN  IF i = 0 THEN <<s>>
        ELSE <<SubSeq(s, 1, i - 1)>> \o split(SubSeq(s, i + 1, Len(s)), sep)

\* file.readlines() in text mode: the lines, each keeping its "\n"
RECURSIVE lines_from(_, _, _)
lines_from(text, from, newlines) ==
    LET later == {i \in newlines : i >= from}
        end == IF later = {} THEN Len(text) ELSE Min(later)
    IN  IF from > Len(text) THEN <<>>
        ELSE <<SubSeq(text, from, end)>> \o lines_from(text, end + 1, newlines)

readlines(text) == lines_from(text, 1, {i \in 1..Len(text) : text[i] = "\n"})

\* file.writelines(strings) on an empty file: the strings, concatenated
RECURSIVE writelines(_)
writelines(strings) ==
    IF strings = <<>> THEN <<>> ELSE Head(strings) \o writelines(Tail(strings))

\* format of an int in an f-string: decimal digits, "-" for a negative
Digit(d) == <<"0","1","2","3","4","5","6","7","8","9">>[d + 1]

RECURSIVE digits(_)
digits(n) == IF n < 10 THEN <<Digit(n)>> ELSE digits(n \div 10) \o <<Digit(n % 10)>>

str(n) == IF n < 0 THEN <<"-">> \o digits(-n) ELSE digits(n)

\* ------------------------------------------------------------------ CoreDNS

\* what the commands do, in the order they do it
CORE_READ   == "core_read"
CORE_WRITE  == "core_write"
ZONE_READ   == "zone_read"
ZONE_WRITE  == "zone_write"
ZONE_APPEND == "zone_append"
PRINT       == "print"
RELOAD      == "reload"

\* how running `/usr/bin/systemctl restart coredns` can end: exit status 0, a
\* non-zero exit status (the unit is missing, the restart fails), or the program
\* cannot be executed at all
ReloadOutcomes == {"exit_0", "exit_nonzero", "not_executed"}

NOT_CALLED == "not_called"

\* what subprocess.run(args, check=check) raises
subprocess_run(outcome, check) ==
    IF outcome = "not_executed" THEN "FileNotFoundError"
    ELSE IF check /\ outcome = "exit_nonzero" THEN "CalledProcessError"
    ELSE "none"

\* what CoreDNS.reload_coredns raises: check=False
reload_raises(outcome) == subprocess_run(outcome, FALSE)

\* a command whose last statement is the reload: what it raised comes from there
after_reload(r, outcome) ==
    IF outcome = NOT_CALLED THEN r ELSE [r EXCEPT !.raised = reload_raises(outcome)]

\* the ways the reload of a command can end: none when it requests no reload
reload_outcomes(r) == IF RELOAD \in Range(r.events) THEN ReloadOutcomes ELSE {NOT_CALLED}

\* a reload that is never requested
reload_skipped(events) == events

\* CoreDNS.reload_coredns: systemctl restart coredns, check=False
reload_coredns(events) == Append(events, RELOAD)

\* --------------------------------------------------------------------- Init

\* `ip -j addr show eth0`: the exit status and, per address, label / local / prefixlen
IfaceOutputs ==
    { [rc |-> 1, addr_info |-> <<>>],
      [rc |-> 0, addr_info |-> << [label |-> "lo", local |-> <<127, 0, 0, 1>>, prefixlen |-> 8] >>],
      [rc |-> 0, addr_info |-> << [label |-> "eth0", local |-> <<10, 0, 0, 7>>, prefixlen |-> 24] >>] }

\* stdout of /usr/bin/hostname
HostnameOutputs == { <<"s","1","-","d","n","s","\n">>, <<"s","1","\n">>, <<"s","1","-","d","n","s","-","a","\n">> }

RECURSIVE pow2(_)
pow2(n) == IF n = 0 THEN 1 ELSE 2 * pow2(n - 1)

\* ipaddress.IPv4Network(f"{local}/{prefixlen}", strict=False), as str() prints it:
\* the host bits are masked off, octet by octet
masked(octet, bits) ==
    LET unit == pow2(8 - bits) IN (octet \div unit) * unit

netbits(prefixlen, k) ==
    LET b == prefixlen - 8 * (k - 1) IN IF b < 0 THEN 0 ELSE IF b > 8 THEN 8 ELSE b

IPv4Network(local, prefixlen) ==
    LET net == [k \in 1..4 |-> masked(local[k], netbits(prefixlen, k))]
    IN  str(net[1]) \o <<".">> \o str(net[2]) \o <<".">> \o str(net[3]) \o <<".">> \o str(net[4])
        \o <<"/">> \o str(prefixlen)

\* Init.__get_cidr_from_interface__: check=True raises on a non-zero exit status,
\* next(iter(...)) raises when no address is labelled eth0
get_cidr_from_interface(out) ==
    LET eth0 == SelectSeq(out.addr_info, LAMBDA a : a.label = "eth0")
    IN  IF out.rc # 0 THEN [raised |-> "CalledProcessError", cidr |-> <<>>]
        ELSE IF eth0 = <<>> THEN [raised |-> "StopIteration", cidr |-> <<>>]
        ELSE [raised |-> "none", cidr |-> IPv4Network(eth0[1].local, eth0[1].prefixlen)]

\* Init.__get_zone_from_hostname__: `zone, _ = stdout.split("-")` needs exactly two pieces
get_zone_from_hostname(stdout) ==
    LET pieces == split(stdout, "-")
    IN  IF Len(pieces) # 2 THEN [raised |-> "ValueError", zone |-> <<>>]
        ELSE [raised |-> "none", zone |-> pieces[1] \o <<".","o","r","b","i","t","l","a","b",".","i","n","t","e","r","n","a","l">>]

origin(zone_name) == <<"$","O","R","I","G","I","N"," ">> \o zone_name \o <<".","\n">>

\* an SOA record written on one line
soa_on_one_line(zone_name) ==
    <<"@"," "," "," ","3","6","0","0"," ","I","N"," ","S","O","A"," ","n","s","1",".">> \o zone_name \o <<"."," ","a","d","m","i","n",".">> \o zone_name
    \o <<"."," ","1"," ","3","6","0","0"," ","6","0","0"," ","8","6","4","0","0"," ","3","6","0","0","\n">>

soa(zone_name) ==
    <<"@"," "," "," ","3","6","0","0"," ","I","N"," ","S","O","A"," ","n","s","1",".">> \o zone_name \o <<"."," ","a","d","m","i","n",".">> \o zone_name \o <<"."," ","(","\n">>
    \o <<" "," "," "," "," "," "," "," ","1"," ","3","6","0","0"," ","6","0","0"," ","8","6","4","0","0"," ","3","6","0","0","\n",")","\n">>

ns(zone_name) == <<" "," "," "," ","I","N"," ","N","S"," ","n","s","1",".">> \o zone_name \o <<".","\n">>

ns_a == <<"n","s","1"," ","I","N"," ","A"," ","1","2","7",".","0",".","0",".","1","\n">>

\* what Init.__create_zone_file__ writes when the file does not exist
zone_header(zone_name) == writelines(<<origin(zone_name), soa(zone_name), ns(zone_name), ns_a>>)

\* a creation that lacks the exists() test
create_zone_file_overwrite(file, zone_name) == zone_header(zone_name)

\* Init.__create_zone_file__: the zone file afterwards
create_zone_file(file, zone_name) ==
    IF file # NoFile THEN file ELSE zone_header(zone_name)

acl_prefix == <<"#"," ","A","C","L">>
zone_prefix == <<"#"," ","Z","O","N","E">>

\* an ACL block that keeps the marker as a comment above it
acl_keeping_marker(sector_cidr) ==
    <<"#"," ","A","C","L","\n"," "," "," "," ","a","c","l"," ","{","\n">> \o <<" "," "," "," "," "," "," "," ","a","l","l","o","w"," ","n","e","t"," ">> \o sector_cidr \o <<"\n">> \o <<" "," "," "," "," "," "," "," ","d","r","o","p","\n">> \o <<" "," "," "," ","}">>

acl(sector_cidr) ==
    <<"a","c","l"," ","{","\n">> \o <<" "," "," "," "," "," "," "," ","a","l","l","o","w"," ","n","e","t"," ">> \o sector_cidr \o <<"\n">> \o <<" "," "," "," "," "," "," "," ","d","r","o","p","\n">> \o <<" "," "," "," ","}">>

zone(zone_name) ==
    <<"f","i","l","e"," ","/","e","t","c","/","c","o","r","e","d","n","s","/","z","o","n","e",".","d","b"," ">> \o zone_name \o <<" ","{","\n">> \o <<" "," "," "," "," "," "," "," ","f","a","l","l","t","h","r","o","u","g","h","\n">> \o <<" "," "," "," ","}">>

\* a write-back with only the ACL marker replaced
substitute_acl_only(data, sector_cidr, zone_name) ==
    replace(data, acl_prefix, acl(sector_cidr))

\* the text Init.run writes back to the Corefile
substitute(data, sector_cidr, zone_name) ==
    replace(replace(data, acl_prefix, acl(sector_cidr)), zone_prefix, zone(zone_name))

\* the guard with its sense inverted
already_initialized_inverted(data) == contains(data, acl_prefix)

\* the guard of Init.run: `if acl_prefix not in data`
already_initialized(data) == ~contains(data, acl_prefix)

\* Init.run from line 73 on, the subnet and the zone name in hand
substitute_and_create(core, file, sector_cidr, zone_name) ==
    IF already_initialized(core)
    THEN [core |-> core, file |-> file, report |-> "Already initialized.",
          raised |-> "none", events |-> <<CORE_READ, PRINT>>]
    ELSE [core |-> substitute(core, sector_cidr, zone_name),
          file |-> create_zone_file(file, zone_name),
          report |-> "",
          raised |-> "none",
          events |-> IF file = NoFile THEN <<CORE_READ, CORE_WRITE, ZONE_WRITE>>
                     ELSE <<CORE_READ, CORE_WRITE>>]

\* an init that opens the Corefile for writing before it discovers anything
run_result_opens_first(core, file, iface, hostname_out) ==
    LET c == get_cidr_from_interface(iface)
        z == get_zone_from_hostname(hostname_out)
        cut == [core |-> <<>>, file |-> file, report |-> "", raised |-> "none",
                events |-> <<CORE_READ, CORE_WRITE>>]
    IN  IF c.raised # "none" THEN [cut EXCEPT !.raised = c.raised]
        ELSE IF z.raised # "none" THEN [cut EXCEPT !.raised = z.raised]
        ELSE substitute_and_create(core, file, c.cidr, z.zone)

\* Init.run: the two files afterwards, what was printed, what was raised, what was done
run_result(core, file, iface, hostname_out) ==
    LET c == get_cidr_from_interface(iface)
        z == get_zone_from_hostname(hostname_out)
        same == [core |-> core, file |-> file, report |-> "", raised |-> "none", events |-> <<>>]
    IN  IF c.raised # "none" THEN [same EXCEPT !.raised = c.raised]
        ELSE IF z.raised # "none" THEN [same EXCEPT !.raised = z.raised]
        ELSE substitute_and_create(core, file, c.cidr, z.zone)

\* --------------------------------------------------------- RecordManagement

\* the record line add_record builds
record(hostname, ttl, ip) == hostname \o <<" ">> \o str(ttl) \o <<" ","I","N"," ","A"," ">> \o ip \o <<"\n">>

\* an open with mode "w", which truncates the file before the write
append_truncating(file, text) == text

\* open(mode="a") creates a missing file; write() appends at the end
append(file, text) == (IF file = NoFile THEN <<>> ELSE file) \o text

\* RecordManagement.add_record
add_record_result(file, hostname, ttl, ip) ==
    [file |-> append(file, record(hostname, ttl, ip)),
     report |-> "Added A Record",
     raised |-> "none",
     events |-> reload_coredns(<<ZONE_APPEND, PRINT>>)]

\* a reserved list that forgets ns1
forbidden_without_ns1 == { <<"$","O","R","I","G","I","N">>, <<"@">>, <<" ">> }

forbidden == { <<"$","O","R","I","G","I","N">>, <<"@">>, <<"n","s","1">>, <<" ">> }

\* a line filter that forgets the separating space
matches_bare_prefix(line, hostname) == startswith(line, hostname)

\* the line filter of delete_record
matches(line, hostname) == startswith(line, hostname \o <<" ">>)

\* a filter that drops only the first line that matches
new_lines_first_only(lines, hostname) ==
    LET hits == {i \in 1..Len(lines) : matches(lines[i], hostname)}
    IN  IF hits = {} THEN lines
        ELSE SubSeq(lines, 1, Min(hits) - 1) \o SubSeq(lines, Min(hits) + 1, Len(lines))

\* a filter that leaves the last of the lines that match
new_lines_keeps_last(lines, hostname) ==
    LET hits == {i \in 1..Len(lines) : matches(lines[i], hostname)}
        last_hit == CHOOSE i \in hits : \A j \in hits : j <= i
    IN  IF Cardinality(hits) < 2 THEN SelectSeq(lines, LAMBDA line : ~matches(line, hostname))
        ELSE SelectSeq(SubSeq(lines, 1, last_hit - 1), LAMBDA line : ~matches(line, hostname))
                 \o SubSeq(lines, last_hit, Len(lines))

new_lines(lines, hostname) == SelectSeq(lines, LAMBDA line : ~matches(line, hostname))

\* a test that never reports "Record not found"
not_found_never(lines, kept) == FALSE

\* the test of delete_record for "Record not found": `len(new_lines) == len(lines)`
not_found(lines, kept) == Len(kept) = Len(lines)

\* RecordManagement.delete_record
delete_record_result(file, arg) ==
    LET hostname == strip(arg)
        same  == [file |-> file, report |-> "", raised |-> "none", events |-> <<>>]
        lines == readlines(file)
        kept  == new_lines(lines, hostname)
    IN  IF hostname = <<>>
        THEN [same EXCEPT !.report = "No hostname provided", !.events = <<PRINT>>]
        ELSE IF hostname \in forbidden
        THEN [same EXCEPT !.report = "Hostname is forbidden", !.events = <<PRINT>>]
        ELSE IF file = NoFile
        THEN [same EXCEPT !.raised = "FileNotFoundError"]
        ELSE IF not_found(lines, kept)
        THEN [same EXCEPT !.report = "Record not found", !.events = <<ZONE_READ, PRINT>>]
        ELSE [file |-> writelines(kept),
              report |-> "Deleted A Record",
              raised |-> "none",
              events |-> reload_coredns(<<ZONE_READ, ZONE_WRITE, PRINT>>)]

\* ------------------------------------------------------------------- inputs

\* the Corefile as shipped, with both placeholder markers, and one whose ACL
\* stanza was written by hand, so that only the ZONE marker is left
CorefileTemplate == <<"."," ","{","\n"," "," "," "," ","#"," ","A","C","L","\n"," "," "," "," ","#"," ","Z","O","N","E","\n","}","\n">>

CorefileHandEdited == <<"."," ","{","\n"," "," "," "," ","a","c","l","\n"," "," "," "," ","#"," ","Z","O","N","E","\n","}","\n">>

CoreFiles == { CorefileTemplate, CorefileHandEdited }

\* hostname arguments of `record add` / `record delete` (argparse takes any string)
Hostnames ==
    { <<"w","e","b","1">>, <<"h","o","s","t","1">>, <<"h","o","s","t","1","0">>, <<"n","s","1">>, <<"@">>, <<"$","O","R","I","G","I","N">>,
      <<>>, <<" ","w","e","b","1">>, <<"@"," "," "," ","3","6","0","0">> }

DEFAULT_TTL == 300

\* hostname arguments of `record add`
AddHostnames == { <<"w","e","b","1">>, <<"h","o","s","t","1">>, <<"h","o","s","t","1","0">>, <<"n","s","1">>, <<" ","w","e","b","1">> }

\* (hostname, ttl, ip) arguments of `record add`: the default ttl, and one given with --ttl
AddArgs ==
    { <<h, DEFAULT_TTL, <<"1","0",".","0",".","0",".","5">>>> : h \in AddHostnames \ { <<"h","o","s","t","1","0">> } }
        \cup { <<<<"h","o","s","t","1","0">>, 60, <<"1","0",".","0",".","0",".","6">>>> }

NoArgs == [hostname |-> <<>>, ttl |-> 0, ip |-> <<>>]

NoRoundTrip == [on |-> FALSE, base |-> NoFile]

\* one command at a time: nothing runs beside it
NoRace == [a |-> [pc |-> "none", args |-> NoArgs, report |-> "", raised |-> "none"],
           d |-> [pc |-> "none", hostname |-> <<>>, lines |-> <<>>, report |-> "",
                  raised |-> "none"],
           window |-> FALSE]

\* -------------------------------------------------------------- state machine

Init ==
    /\ ZONE_FILE = NoFile
    /\ CORE_FILE \in CoreFiles
    /\ last = [op |-> "none", args |-> NoArgs, preZone |-> NoFile, preCore |-> CORE_FILE,
               report |-> "", raised |-> "none", events |-> <<>>, rt |-> NoRoundTrip,
               reload |-> NOT_CALLED, again |-> FALSE]
    /\ nadds = 0
    /\ scenario = 0
    /\ race = NoRace

\* /usr/bin/hostname is run only when the subnet was found: its output does not
\* matter otherwise
hostname_outputs_after(iface) ==
    IF get_cidr_from_interface(iface).raised = "none" THEN HostnameOutputs
    ELSE {CHOOSE o \in HostnameOutputs : TRUE}

\* `dnstool init`
run ==
    \E iface \in IfaceOutputs : \E hostname_out \in hostname_outputs_after(iface) :
        LET r == run_result(CORE_FILE, ZONE_FILE, iface, hostname_out)
        IN  /\ CORE_FILE' = r.core
            /\ ZONE_FILE' = r.file
            /\ last' = [op |-> "init", args |-> NoArgs, preZone |-> ZONE_FILE,
                        preCore |-> CORE_FILE, report |-> r.report, raised |-> r.raised,
                        events |-> r.events, rt |-> NoRoundTrip,
                        reload |-> NOT_CALLED, again |-> FALSE]
            /\ scenario' = IF ZONE_WRITE \in Range(r.events) THEN 1 ELSE 0
            /\ UNCHANGED <<nadds, race>>

\* `dnstool record add <hostname> <ip> --ttl <ttl>`
add_record ==
    /\ nadds < MaxAdds
    /\ \E a \in AddArgs :
        LET done == add_record_result(ZONE_FILE, a[1], a[2], a[3]) IN
        \E outcome \in reload_outcomes(done) :
        LET r == after_reload(done, outcome)
        IN  /\ ZONE_FILE' = r.file
            /\ last' = [op |-> "add", args |-> [hostname |-> a[1], ttl |-> a[2], ip |-> a[3]],
                        preZone |-> ZONE_FILE, preCore |-> CORE_FILE, report |-> r.report,
                        raised |-> r.raised, events |-> r.events, rt |-> NoRoundTrip,
                        reload |-> outcome, again |-> FALSE]
            /\ scenario' = IF scenario = 1 /\ a = <<<<"w","e","b","1">>, 300, <<"1","0",".","0",".","0",".","5">>>> THEN 2 ELSE 0
    /\ nadds' = nadds + 1
    /\ UNCHANGED <<CORE_FILE, race>>

\* `dnstool record delete <hostname>`
delete_record ==
    \E h \in Hostnames :
        LET done == delete_record_result(ZONE_FILE, h) IN
        \E outcome \in reload_outcomes(done) :
        LET r == after_reload(done, outcome)
        IN  /\ ZONE_FILE' = r.file
            /\ last' = [op |-> "delete", args |-> [hostname |-> h, ttl |-> 0, ip |-> <<>>],
                        preZone |-> ZONE_FILE, preCore |-> CORE_FILE, report |-> r.report,
                        raised |-> r.raised, events |-> r.events,
                        rt |-> IF last.op = "add" /\ last.args.hostname = h
                               THEN [on |-> TRUE, base |-> last.preZone]
                               ELSE NoRoundTrip,
                        reload |-> outcome,
                        again |-> /\ last.op = "delete" /\ last.args.hostname = h
                                  /\ last.report = "Deleted A Record"]
            /\ scenario' = IF scenario \in {2, 3} /\ h = <<"w","e","b","1">> THEN scenario + 1 ELSE 0
            /\ UNCHANGED <<CORE_FILE, nadds, race>>

Next == run \/ add_record \/ delete_record

Spec == Init /\ [][Next]_vars

\* the lines of the zone file, as readlines() returns them; none when it does not exist
Lines(file) == IF file = NoFile THEN <<>> ELSE readlines(file)

\* the zone names Init.run can derive
ZoneNames ==
    { get_zone_from_hostname(o).zone :
        o \in { x \in HostnameOutputs : get_zone_from_hostname(x).raised = "none" } }

\* the subnets Init.run can derive
SectorCidrs ==
    { get_cidr_from_interface(o).cidr :
        o \in { x \in IfaceOutputs : get_cidr_from_interface(x).raised = "none" } }

\* ---------------------------------------------- two commands running at once
\*
\* One `record add` and one `record delete` started together on the same zone
\* file; nothing in the code locks it.  Each statement of add_record and of
\* delete_record that touches the file, prints or reloads is one step, and the
\* steps of the two commands interleave in any order.  pc names the statement
\* a command runs next.

\* open(mode="a"): creates a missing file, keeps an existing one
open_a(file) == IF file = NoFile THEN <<>> ELSE file

\* the write of a file opened with mode "a", flushed when the with-block
\* closes it: the text goes to the end of the file as it is then
write_at_end(file, text) == file \o text

\* an open for writing that keeps what the file holds
open_keeping(file) == file

\* open(mode="wt"): truncates the file
open_wt(file) == <<>>

\* the write of a file opened with mode "wt", flushed when the with-block
\* closes it: the text goes to the start of the file, over what is there
write_at_start(file, text) == text \o SubSeq(file, Len(text) + 1, Len(file))

\* the records a zone file holds when the two commands start
RaceRecords ==
    { <<>>,
      record(<<"w","e","b","1">>, DEFAULT_TTL, <<"1","0",".","0",".","0",".","5">>),
      record(<<"h","o","s","t","1">>, DEFAULT_TTL, <<"1","0",".","0",".","0",".","5">>) \o record(<<"w","e","b","1">>, DEFAULT_TTL, <<"1","0",".","0",".","0",".","5">>) }

\* the zone file when the two commands start: none, or one made by init with
\* records added since
RaceFiles == {NoFile} \cup { zone_header(z) \o recs : z \in ZoneNames, recs \in RaceRecords }

InitRace ==
    /\ ZONE_FILE \in RaceFiles
    /\ CORE_FILE \in { substitute(CorefileTemplate, c, z) : c \in SectorCidrs, z \in ZoneNames }
    /\ last = [op |-> "none", args |-> NoArgs, preZone |-> NoFile, preCore |-> CORE_FILE,
               report |-> "", raised |-> "none", events |-> <<>>, rt |-> NoRoundTrip,
               reload |-> NOT_CALLED, again |-> FALSE]
    /\ nadds = 0
    /\ scenario = 0
    /\ \E a \in AddArgs, h \in Hostnames :
          race = [a |-> [pc |-> "open",
                         args |-> [hostname |-> a[1], ttl |-> a[2], ip |-> a[3]],
                         report |-> "", raised |-> "none"],
                  d |-> [pc |-> "check", hostname |-> h, lines |-> <<>>, report |-> "",
                         raised |-> "none"],
                  window |-> FALSE]

\* add_record, line 125: `with cls.ZONE_FILE.open(mode="a") as zone_file`
add_open ==
    /\ race.a.pc = "open"
    /\ ZONE_FILE' = open_a(ZONE_FILE)
    /\ race' = [race EXCEPT !.a.pc = "write"]
    /\ UNCHANGED <<CORE_FILE, last, nadds, scenario>>

\* add_record, line 126 and the end of the with-block.  window records that the
\* line went in after delete_record read the file and before it opened the
\* file to write it back.
add_write ==
    /\ race.a.pc = "write"
    /\ ZONE_FILE' = write_at_end(ZONE_FILE, record(race.a.args.hostname, race.a.args.ttl,
                                                   race.a.args.ip))
    /\ race' = [race EXCEPT !.a.pc = "print",
                            !.window = race.d.pc \in {"compare", "open"}]
    /\ UNCHANGED <<CORE_FILE, last, nadds, scenario>>

\* add_record, line 127
add_print ==
    /\ race.a.pc = "print"
    /\ race' = [race EXCEPT !.a.pc = "reload", !.a.report = "Added A Record"]
    /\ UNCHANGED <<ZONE_FILE, CORE_FILE, last, nadds, scenario>>

\* add_record, line 128
add_reload ==
    /\ race.a.pc = "reload"
    /\ \E outcome \in ReloadOutcomes :
          race' = [race EXCEPT !.a.pc = "done", !.a.raised = reload_raises(outcome)]
    /\ UNCHANGED <<ZONE_FILE, CORE_FILE, last, nadds, scenario>>

\* delete_record, lines 133-139
delete_check ==
    /\ race.d.pc = "check"
    /\ LET hostname == strip(race.d.hostname)
       IN  race' = IF hostname = <<>>
                   THEN [race EXCEPT !.d.pc = "done", !.d.report = "No hostname provided"]
                   ELSE IF hostname \in forbidden
                   THEN [race EXCEPT !.d.pc = "done", !.d.report = "Hostname is forbidden"]
                   ELSE [race EXCEPT !.d.pc = "read"]
    /\ UNCHANGED <<ZONE_FILE, CORE_FILE, last, nadds, scenario>>

\* delete_record, lines 140-141
delete_read ==
    /\ race.d.pc = "read"
    /\ race' = IF ZONE_FILE = NoFile
               THEN [race EXCEPT !.d.pc = "done", !.d.raised = "FileNotFoundError"]
               ELSE [race EXCEPT !.d.pc = "compare", !.d.lines = readlines(ZONE_FILE)]
    /\ UNCHANGED <<ZONE_FILE, CORE_FILE, last, nadds, scenario>>

\* delete_record, lines 142-145
delete_compare ==
    /\ race.d.pc = "compare"
    /\ LET kept == new_lines(race.d.lines, strip(race.d.hostname))
       IN  race' = IF not_found(race.d.lines, kept)
                   THEN [race EXCEPT !.d.pc = "done", !.d.report = "Record not found"]
                   ELSE [race EXCEPT !.d.pc = "open"]
    /\ UNCHANGED <<ZONE_FILE, CORE_FILE, last, nadds, scenario>>

\* delete_record, line 146: `with cls.ZONE_FILE.open(mode="wt") as zone_file`
delete_open ==
    /\ race.d.pc = "open"
    /\ ZONE_FILE' = open_wt(ZONE_FILE)
    /\ race' = [race EXCEPT !.d.pc = "write"]
    /\ UNCHANGED <<CORE_FILE, last, nadds, scenario>>

\* delete_record, line 147 and the end of the with-block
delete_write ==
    /\ race.d.pc = "write"
    /\ ZONE_FILE' = write_at_start(ZONE_FILE,
                                   writelines(new_lines(race.d.lines, strip(race.d.hostname))))
    /\ race' = [race EXCEPT !.d.pc = "print"]
    /\ UNCHANGED <<CORE_FILE, last, nadds, scenario>>

\* delete_record, line 148
delete_print ==
    /\ race.d.pc = "print"
    /\ race' = [race EXCEPT !.d.pc = "reload", !.d.report = "Deleted A Record"]
    /\ UNCHANGED <<ZONE_FILE, CORE_FILE, last, nadds, scenario>>

\* delete_record, line 149
delete_reload ==
    /\ race.d.pc = "reload"
    /\ \E outcome \in ReloadOutcomes :
          race' = [race EXCEPT !.d.pc = "done", !.d.raised = reload_raises(outcome)]
    /\ UNCHANGED <<ZONE_FILE, CORE_FILE, last, nadds, scenario>>

NextRace ==
    \/ add_open \/ add_write \/ add_print \/ add_reload
    \/ delete_check \/ delete_read \/ delete_compare
    \/ delete_open \/ delete_write \/ delete_print \/ delete_reload

SpecRace == InitRace /\ [][NextRace]_vars

\* ------------------------------------------------------------------- claims

wrote_core == CORE_WRITE \in Range(last.events)

\* C1: zone-file creation never overwrites and is idempotent: when the zone file
\* already exists, with whatever records it holds, creation leaves it as it is
\* and raises nothing; creating twice gives the file that creating once gives.
C1_CreateIdempotent ==
    /\ (last.op = "init" /\ wrote_core /\ last.preZone # NoFile)
          => (ZONE_FILE = last.preZone /\ last.raised = "none")
    /\ \A z \in ZoneNames :
          /\ ZONE_FILE # NoFile => create_zone_file(ZONE_FILE, z) = ZONE_FILE
          /\ create_zone_file(create_zone_file(ZONE_FILE, z), z) = create_zone_file(ZONE_FILE, z)

\* an init that substituted and called creation on a zone file holding a record
C1_Witness ==
    /\ last.op = "init" /\ wrote_core
    /\ last.preZone # NoFile /\ Len(Lines(last.preZone)) >= 1
    /\ ZONE_FILE = last.preZone

\* C2: when the Corefile does not contain the ACL marker, init leaves the
\* Corefile as it is and neither creates nor modifies the zone file.
C2_InitGuard ==
    (last.op = "init" /\ ~contains(last.preCore, acl_prefix))
        => /\ CORE_FILE = last.preCore
           /\ ZONE_FILE = last.preZone
           /\ Range(last.events) \cap {CORE_WRITE, ZONE_WRITE, ZONE_APPEND} = {}

\* a re-run of init after a substituting one, whose Corefile is the substituted one
C2_Witness ==
    /\ last.op = "init" /\ last.report = "Already initialized."
    /\ ~contains(last.preCore, acl_prefix)
    /\ last.preCore \notin CoreFiles
    /\ CORE_FILE = last.preCore /\ ZONE_FILE = last.preZone

\* the text of a file, empty when the file does not exist
Content(file) == IF file = NoFile THEN <<>> ELSE file

\* the lines of a file that do not begin with `prefix`, in order
Others(file, prefix) == SelectSeq(Lines(file), LAMBDA line : ~startswith(line, prefix))

\* the first token of a line: its text up to the first space
hostname_of(line) ==
    LET i == find(line, <<" ">>) IN IF i = 0 THEN line ELSE SubSeq(line, 1, i - 1)

proper_prefix(h, name) == Len(h) < Len(name) /\ startswith(name, h)

\* how many times `line` occurs in a file
Count(file, line) == Cardinality({i \in 1..Len(Lines(file)) : Lines(file)[i] = line})

no_write_no_reload == Range(last.events) \cap {ZONE_WRITE, ZONE_APPEND, RELOAD} = {}

\* C3: add_record(hostname, ttl, ip) followed by delete_record(hostname) returns
\* the zone file to its content before the add, for every content and hostname.
C3_RoundTrip ==
    (last.op = "delete" /\ last.rt.on) => Content(ZONE_FILE) = Content(last.rt.base)

\* C4, as stated: delete_record(h) removes only lines that begin with the
\* argument h followed by a space, and leaves every record whose hostname has h
\* as a proper prefix.
C4_PrefixSafetyOfArgument ==
    last.op = "delete" =>
        LET h == last.args.hostname
        IN  /\ Others(last.preZone, h \o <<" ">>) = Others(ZONE_FILE, h \o <<" ">>)
            /\ \A line \in Range(Lines(last.preZone)) :
                  proper_prefix(h, hostname_of(line))
                      => Count(ZONE_FILE, line) = Count(last.preZone, line)

\* C4, amended: delete_record(h) removes only lines that begin with h, trimmed of
\* surrounding whitespace, followed by a space; every other line stays, in order,
\* and so does every record whose hostname has the trimmed h as a proper prefix.
C4_PrefixSafety ==
    last.op = "delete" =>
        LET h == strip(last.args.hostname)
        IN  /\ Others(last.preZone, h \o <<" ">>) = Others(ZONE_FILE, h \o <<" ">>)
            /\ \A line \in Range(Lines(last.preZone)) :
                  proper_prefix(h, hostname_of(line))
                      => Count(ZONE_FILE, line) = Count(last.preZone, line)

\* host1 deleted from a file that held host1 and host10: host10 is still there
C4_Witness ==
    /\ last.op = "delete" /\ last.args.hostname = <<"h","o","s","t","1">>
    /\ last.report = "Deleted A Record"
    /\ \E line \in Range(Lines(last.preZone)) : hostname_of(line) = <<"h","o","s","t","1">>
    /\ \E line \in Range(Lines(last.preZone)) :
          hostname_of(line) = <<"h","o","s","t","1","0">> /\ line \in Range(Lines(ZONE_FILE))
    /\ \A line \in Range(Lines(ZONE_FILE)) : hostname_of(line) # <<"h","o","s","t","1">>

Reserved == { <<"@">>, <<"n","s","1">>, <<"$","O","R","I","G","I","N">> }

\* C5: delete_record with a hostname that, trimmed, is empty or is @, ns1 or
\* $ORIGIN reports a rejection, does not touch the zone file (no read, no write)
\* and does not reload.
C5_ReservedRejected ==
    (last.op = "delete" /\ (strip(last.args.hostname) = <<>> \/ strip(last.args.hostname) \in Reserved))
        => /\ last.report \in {"No hostname provided", "Hostname is forbidden"}
           /\ last.raised = "none"
           /\ ZONE_FILE = last.preZone
           /\ Range(last.events) \cap {ZONE_READ, ZONE_WRITE, ZONE_APPEND, RELOAD} = {}

\* ns1 refused on a zone file that holds a line beginning with "ns1 "
C5_Witness ==
    /\ last.op = "delete" /\ last.args.hostname = <<"n","s","1">>
    /\ last.report = "Hostname is forbidden"
    /\ \E line \in Range(Lines(last.preZone)) : startswith(line, <<"n","s","1"," ">>)
    /\ ZONE_FILE = last.preZone

\* C6, as stated: delete_record(h) on a zone file in which no line starts with
\* the argument h followed by a space reports "not found", writes nothing and
\* does not reload.
C6_NotFoundOfArgument ==
    (/\ last.op = "delete" /\ last.preZone # NoFile
     /\ \A line \in Range(Lines(last.preZone)) : ~startswith(line, last.args.hostname \o <<" ">>))
        => /\ last.report = "Record not found"
           /\ ZONE_FILE = last.preZone
           /\ no_write_no_reload

\* C6, amended: delete_record(h) whose trimmed hostname is not empty and not
\* reserved, on a zone file in which no line starts with the trimmed hostname
\* followed by a space, reports "not found", writes nothing and does not reload.
C6_NotFound ==
    (/\ last.op = "delete" /\ last.preZone # NoFile
     /\ strip(last.args.hostname) # <<>> /\ strip(last.args.hostname) \notin Reserved
     /\ \A line \in Range(Lines(last.preZone)) :
           ~startswith(line, strip(last.args.hostname) \o <<" ">>))
        => /\ last.report = "Record not found"
           /\ last.raised = "none"
           /\ ZONE_FILE = last.preZone
           /\ no_write_no_reload

\* host1 not found in a zone file that holds host10
C6_Witness ==
    /\ last.op = "delete" /\ last.args.hostname = <<"h","o","s","t","1">>
    /\ last.report = "Record not found"
    /\ \E line \in Range(Lines(last.preZone)) : hostname_of(line) = <<"h","o","s","t","1","0">>
    /\ ZONE_FILE = last.preZone

\* the positions of event e in what the last command did
At(e) == {i \in 1..Len(last.events) : last.events[i] = e}

\* exactly one reload, requested after every write of kind `write`
one_reload_after(write) ==
    /\ Cardinality(At(RELOAD)) = 1
    /\ At(write) # {}
    /\ \A i \in At(write), j \in At(RELOAD) : i < j

\* C7: every add_record, and every delete_record that removed a line, requests
\* the reload exactly once and only after the zone file was written; a command
\* that left the zone file as it was requests no reload.
C7_ReloadAfterMutation ==
    /\ last.op = "add" => one_reload_after(ZONE_APPEND)
    /\ (last.op = "delete" /\ Len(Lines(ZONE_FILE)) < Len(Lines(last.preZone)))
          => one_reload_after(ZONE_WRITE)
    /\ (last.op # "none" /\ ZONE_FILE = last.preZone) => At(RELOAD) = {}

\* a delete that removed a line: read, write, print, reload
C7_Witness ==
    /\ last.op = "delete"
    /\ Len(Lines(ZONE_FILE)) < Len(Lines(last.preZone))
    /\ last.events = <<ZONE_READ, ZONE_WRITE, PRINT, RELOAD>>

web1_line == <<"w","e","b","1"," ","3","0","0"," ","I","N"," ","A"," ","1","0",".","0",".","0",".","5","\n">>

\* C8, as stated: the created zone file has 4 lines; add("web1", 300, "10.0.0.5")
\* appends "web1 300 IN A 10.0.0.5" giving 5; delete("web1") gives 4 again; a
\* second delete("web1") reports not found and leaves 4.
C8_ExampleFourLines ==
    LET L == Lines(ZONE_FILE)
    IN  /\ scenario = 1 => Len(L) = 4
        /\ scenario = 2 => (Len(L) = 5 /\ L[Len(L)] = web1_line)
        /\ scenario = 3 => Len(L) = 4
        /\ scenario = 4 => (last.report = "Record not found" /\ Len(L) = 4)

\* C8, amended: the created zone file has 6 lines (the SOA block takes three);
\* the add appends "web1 300 IN A 10.0.0.5" giving 7; delete("web1") gives the
\* created file back, 6 lines; a second delete("web1") reports not found, still 6.
C8_ExampleSixLines ==
    LET L == Lines(ZONE_FILE)
    IN  /\ scenario = 1 => Len(L) = 6
        /\ scenario = 2 => (Len(L) = 7 /\ L[Len(L)] = web1_line
                            /\ SubSeq(L, 1, 6) = Lines(last.preZone))
        /\ scenario = 3 => (Len(L) = 6 /\ ZONE_FILE \in {zone_header(z) : z \in ZoneNames}
                            /\ last.report = "Deleted A Record")
        /\ scenario = 4 => (last.report = "Record not found" /\ Len(L) = 6
                            /\ ZONE_FILE = last.preZone)

\* the end of the scenario: the second delete("web1")
C8_Witness ==
    /\ scenario = 4
    /\ last.op = "delete" /\ last.args.hostname = <<"w","e","b","1">>
    /\ last.report = "Record not found"
    /\ Len(Lines(ZONE_FILE)) = 6

is_a_record(line) == contains(line, <<" ","I","N"," ","A"," ">>)

\* a Zone Record: an A-record line of a host, not of a reserved name
is_zone_record(line) ==
    /\ is_a_record(line)
    /\ hostname_of(line) # <<>>
    /\ hostname_of(line) \notin Reserved

\* the lines Init.__create_zone_file__ writes, followed by Zone Records only
structured(file) ==
    \E z \in ZoneNames :
        LET header == readlines(zone_header(z))
            L == Lines(file)
        IN  /\ Len(L) >= Len(header)
            /\ SubSeq(L, 1, Len(header)) = header
            /\ \A i \in (Len(header) + 1)..Len(L) : is_zone_record(L[i])

\* C9: whenever the zone file exists it is one $ORIGIN directive, one SOA block,
\* one NS directive and one A record for ns1, in that order, followed by zero or
\* more Zone Records.
C9_ZoneFileStructure == ZONE_FILE # NoFile => structured(ZONE_FILE)

\* C10: no two A-record lines of the zone file have the same hostname.
C10_UniqueHostnames ==
    LET L == Lines(ZONE_FILE)
    IN  \A i, j \in 1..Len(L) :
            (i < j /\ is_a_record(L[i]) /\ is_a_record(L[j]))
                => hostname_of(L[i]) # hostname_of(L[j])

\* C11: after any init run that returns normally, whatever the Corefile (ACL
\* marker present or absent) and the zone file (present or absent) were, the
\* zone file exists.
C11_InitEnsuresZoneFile ==
    (last.op = "init" /\ last.raised = "none") => ZONE_FILE # NoFile

discovery_fails(iface, hostname_out) ==
    \/ get_cidr_from_interface(iface).raised # "none"
    \/ get_zone_from_hostname(hostname_out).raised # "none"

\* C12: when discovering the subnet or the zone name fails, init raises with
\* neither file opened, written or created: both are as they were.
C12_FailFast ==
    /\ (last.op = "init" /\ last.raised # "none")
          => (CORE_FILE = last.preCore /\ ZONE_FILE = last.preZone /\ last.events = <<>>)
    /\ \A iface \in IfaceOutputs, hostname_out \in HostnameOutputs :
          discovery_fails(iface, hostname_out) =>
              LET r == run_result(CORE_FILE, ZONE_FILE, iface, hostname_out)
              IN  /\ r.raised # "none"
                  /\ r.core = CORE_FILE /\ r.file = ZONE_FILE /\ r.events = <<>>

\* an init that raised ValueError on a Corefile still holding the ACL marker,
\* with no zone file: the marker is still there and there is still no zone file
C12_Witness ==
    /\ last.op = "init" /\ last.raised = "ValueError"
    /\ contains(last.preCore, acl_prefix) /\ last.preZone = NoFile
    /\ CORE_FILE = last.preCore /\ ZONE_FILE = NoFile /\ last.events = <<>>

\* the zone file a record command leaves when its write went through
written ==
    IF last.op = "add"
    THEN Content(last.preZone) \o record(last.args.hostname, last.args.ttl, last.args.ip)
    ELSE writelines(Others(last.preZone, strip(last.args.hostname) \o <<" ">>))

\* C13: whether the reload succeeds or fails, the zone file stays exactly as
\* add_record or delete_record wrote it and the command raises nothing.
C13_ReloadNonFatal ==
    (last.op \in {"add", "delete"} /\ last.reload # NOT_CALLED)
        => (ZONE_FILE = written /\ last.raised = "none")


\* data with the first ACL marker and the first ZONE marker cut out and the two
\* blocks put in their places
spliced(data, acl_block, zone_block) ==
    LET i == find(data, acl_prefix)
        j == find(data, zone_prefix)
    IN  SubSeq(data, 1, i - 1) \o acl_block
            \o SubSeq(data, i + Len(acl_prefix), j - 1) \o zone_block
            \o SubSeq(data, j + Len(zone_prefix), Len(data))

\* number of places at which p occurs in s
occurrences(s, p) ==
    Cardinality({i \in 1..(Len(s) - Len(p) + 1) : SubSeq(s, i, i + Len(p) - 1) = p})

\* C14: an init that returns normally on a Corefile holding the ACL marker
\* writes the Corefile once, with the ACL block in place of the ACL marker and
\* the zone block in place of the ZONE marker, and then creates the zone file
\* if there is none; on a Corefile without the ACL marker it prints "Already
\* initialized." and writes nothing.  The Corefile never changes into one that
\* still holds a marker.
C14_SubstitutesWhenMarked ==
    (last.op = "init" /\ last.raised = "none") =>
        IF contains(last.preCore, acl_prefix)
        THEN /\ \E c \in SectorCidrs, z \in ZoneNames :
                  /\ CORE_FILE = spliced(last.preCore, acl(c), zone(z))
                  /\ ZONE_FILE = IF last.preZone = NoFile THEN zone_header(z) ELSE last.preZone
             /\ last.events = IF last.preZone = NoFile
                              THEN <<CORE_READ, CORE_WRITE, ZONE_WRITE>>
                              ELSE <<CORE_READ, CORE_WRITE>>
             /\ ~contains(CORE_FILE, acl_prefix) /\ ~contains(CORE_FILE, zone_prefix)
        ELSE /\ last.report = "Already initialized."
             /\ CORE_FILE = last.preCore
             /\ ~wrote_core

\* the shipped Corefile after init on 10.0.0.7/24, hostname s1-dns
CorefileSubstituted ==
    <<"."," ","{","\n"," "," "," "," ","a","c","l"," ","{","\n"," "," "," "," "," "," "," "," ","a","l","l","o","w"," ","n","e","t"," ","1","0",".","0",".","0",".","0","/","2","4","\n"," "," "," "," "," "," "," "," ","d","r","o","p","\n"," "," "," "," ","}","\n"," "," "," "," ","f","i","l","e"," ","/","e","t","c","/","c","o","r","e","d","n","s","/","z","o","n","e",".","d","b"," ","s","1",".","o","r","b","i","t","l","a","b",".","i","n","t","e","r","n","a","l"," ","{","\n"," "," "," "," "," "," "," "," ","f","a","l","l","t","h","r","o","u","g","h","\n"," "," "," "," ","}","\n","}","\n">>

\* a first init on the shipped Corefile: both blocks are in, the zone file is new
C14_Witness ==
    /\ last.op = "init" /\ last.raised = "none"
    /\ last.preCore = CorefileTemplate /\ last.preZone = NoFile
    /\ CORE_FILE = CorefileSubstituted
    /\ last.events = <<CORE_READ, CORE_WRITE, ZONE_WRITE>>
    /\ ZONE_FILE # NoFile

\* C15: the Corefile changes only in an init step that finds both markers, and
\* then into a text holding neither marker and each block once; an init on a
\* Corefile without the ACL marker writes nothing and leaves both files as
\* they were.  So the Corefile is written at most once.
C15_OneShot ==
    [][ /\ (CORE_FILE' # CORE_FILE \/ (last'.op = "init" /\ CORE_WRITE \in Range(last'.events)))
            => /\ last'.op = "init"
               /\ contains(CORE_FILE, acl_prefix) /\ contains(CORE_FILE, zone_prefix)
               /\ ~contains(CORE_FILE', acl_prefix) /\ ~contains(CORE_FILE', zone_prefix)
               /\ occurrences(CORE_FILE', <<"a","c","l"," ","{">>) = 1
               /\ occurrences(CORE_FILE', <<"f","i","l","e"," ","/","e","t","c","/","c","o","r","e","d","n","s","/","z","o","n","e",".","d","b">>) = 1
        /\ (last'.op = "init" /\ (ZONE_FILE' # ZONE_FILE \/ last'.report # "Already initialized."))
            => (contains(CORE_FILE, acl_prefix) \/ last'.raised # "none")
      ]_vars

\* an init that found the Corefile already substituted by an earlier init and
\* did nothing
C15_Witness ==
    /\ last.op = "init" /\ last.report = "Already initialized."
    /\ last.preCore = CorefileSubstituted
    /\ CORE_FILE = CorefileSubstituted
    /\ last.events = <<CORE_READ, PRINT>>

\* the lines of a zone file that begin with a prefix
Starting(file, prefix) == {i \in 1..Len(Lines(file)) : startswith(Lines(file)[i], prefix)}

\* C16: delete_record with a trimmed hostname h that is neither empty nor
\* reserved leaves exactly the lines that do not start with h and a space, each
\* as it was and in the order they had; the zone file is opened for writing
\* only when at least one line started with h and a space.
C16_DeleteFilters ==
    LET h == strip(last.args.hostname)
        gone == Starting(last.preZone, h \o <<" ">>)
    IN  (last.op = "delete" /\ h # <<>> /\ h \notin Reserved /\ last.preZone # NoFile)
            => /\ ZONE_FILE = writelines(Others(last.preZone, h \o <<" ">>))
               /\ Len(Lines(ZONE_FILE)) = Len(Lines(last.preZone)) - Cardinality(gone)
               /\ gone = {} => ZONE_FILE = last.preZone
               /\ (ZONE_WRITE \in Range(last.events)) <=> (gone # {})

\* a delete of web1 on a zone file with two web1 lines and other lines: both
\* are gone, the others are left
C16_Witness ==
    /\ last.op = "delete" /\ last.args.hostname = <<"w","e","b","1">>
    /\ Cardinality(Starting(last.preZone, <<"w","e","b","1"," ">>)) = 2
    /\ Len(Lines(last.preZone)) > 2
    /\ Starting(ZONE_FILE, <<"w","e","b","1"," ">>) = {}
    /\ Len(Lines(ZONE_FILE)) = Len(Lines(last.preZone)) - 2
    /\ ZONE_WRITE \in Range(last.events)

\* the ttl as the command line gave it
ttl_text(ttl) == IF ttl = 300 THEN <<"3","0","0">> ELSE IF ttl = 60 THEN <<"6","0">> ELSE <<>>

\* C17: add_record rejects nothing: for every hostname, one already present or
\* a reserved one included, it reports the record added and the zone file is the
\* old one with the one line "<hostname> <ttl> IN A <ip>" after it, every line
\* that was there still at its place.
C17_AddAppends ==
    LET line == last.args.hostname \o <<" ">> \o ttl_text(last.args.ttl) \o <<" ","I","N"," ","A"," ">>
                    \o last.args.ip \o <<"\n">>
    IN  last.op = "add"
            => /\ ZONE_FILE = Content(last.preZone) \o line
               /\ Lines(ZONE_FILE) = Lines(last.preZone) \o <<line>>
               /\ last.report = "Added A Record"
               /\ Cardinality(At(ZONE_APPEND)) = 1
               /\ ZONE_WRITE \notin Range(last.events)

\* an add of the reserved name ns1 on a zone file that has the ns1 line of its
\* creation: the file has a second ns1 line at its end
C17_Witness ==
    /\ last.op = "add" /\ last.args.hostname = <<"n","s","1">>
    /\ Starting(last.preZone, <<"n","s","1"," ">>) # {}
    /\ ZONE_FILE = last.preZone \o <<"n","s","1"," ","3","0","0"," ","I","N"," ","A"," ","1","0",".","0",".","0",".","5","\n">>
    /\ last.report = "Added A Record"

\* both commands of the race have ended, the delete having written the file back
race_over == race.a.pc = "done" /\ race.d.pc = "done" /\ race.d.report = "Deleted A Record"

\* C18: when add_record's line goes into the zone file after delete_record has
\* read it and before delete_record opens it to write it back, then, both
\* commands over, the zone file is what delete_record made of the lines it had
\* read: the added line has left no trace in it, and add_record has printed
\* that the record was added.
C18_LostUpdate ==
    (race.window /\ race_over)
        => /\ ZONE_FILE = writelines(SelectSeq(race.d.lines,
                              LAMBDA line : ~startswith(line, strip(race.d.hostname) \o <<" ">>)))
           /\ Len(Lines(ZONE_FILE)) < Len(race.d.lines)
           /\ race.a.report = "Added A Record"

\* add host1 beside delete web1, the append falling between the read and the
\* rewrite: both report success and no host1 line is in the zone file
C18_Witness ==
    /\ race.window /\ race_over
    /\ race.a.args.hostname = <<"h","o","s","t","1">> /\ race.d.hostname = <<"w","e","b","1">>
    /\ race.a.report = "Added A Record" /\ race.a.raised = "none"
    /\ race.d.raised = "none"
    /\ Starting(ZONE_FILE, <<"h","o","s","t","1"," ">>) = {}
    /\ Starting(ZONE_FILE, <<"w","e","b","1"," ">>) = {}
    /\ Len(Lines(ZONE_FILE)) = 6

\* the lines a zone file gets at its creation
StructuralLines == UNION { Range(readlines(zone_header(z))) : z \in ZoneNames }

\* C19: whatever its hostname argument, delete_record leaves in the zone file
\* every line written at creation ($ORIGIN, the SOA block, NS, the ns1 A line)
\* that was in it.
C19_StructuralLinesKept ==
    last.op = "delete"
        => \A line \in StructuralLines :
               Count(last.preZone, line) > 0 => Count(ZONE_FILE, line) > 0

\* C20 as stated, of the hostname argument as given: after a delete that
\* removed a line, no line starts with the argument and a space.
C20_IdempotentOfArgument ==
    (last.op = "delete" /\ last.report = "Deleted A Record")
        => Starting(ZONE_FILE, last.args.hostname \o <<" ">>) = {}

\* C20: after a delete that removed a line, no line starts with the trimmed
\* hostname and a space; the same delete run again reports "Record not found",
\* leaves the zone file as it is and does not reload.
C20_Idempotent ==
    /\ (last.op = "delete" /\ last.report = "Deleted A Record")
          => /\ Starting(ZONE_FILE, strip(last.args.hostname) \o <<" ">>) = {}
             /\ LET r == delete_record_result(ZONE_FILE, last.args.hostname)
                IN  /\ r.report = "Record not found"
                    /\ r.file = ZONE_FILE
                    /\ Range(r.events) \cap {ZONE_WRITE, ZONE_APPEND, RELOAD} = {}
    /\ last.again
          => /\ last.report = "Record not found"
             /\ ZONE_FILE = last.preZone
             /\ no_write_no_reload
             /\ last.reload = NOT_CALLED

\* a delete of web1 run again right after one that removed a web1 line, on a
\* zone file with its six lines of creation
C20_Witness ==
    /\ last.again /\ last.args.hostname = <<"w","e","b","1">>
    /\ last.report = "Record not found"
    /\ ZONE_FILE = last.preZone
    /\ Starting(ZONE_FILE, <<"w","e","b","1"," ">>) = {}
    /\ Len(Lines(ZONE_FILE)) >= 6
====
